---------------------------- MODULE Spec2Model ----------------------------
(***************************************************************************)
(* Model of "HTML Creator/program.py", the AnonyChat game page generator:  *)
(* a Tk window with four StringVar fields, three picker callbacks and the  *)
(* generate_html callback.                                                 *)
(*                                                                         *)
(* Text is modelled as a sequence of characters.  A character is a string: *)
(* an ASCII character stands for itself, a non-ASCII code point is written *)
(* "U+XXXX", and each literal piece of an f-string template is one token   *)
(* (a string longer than any character).  Bytes are numbers 0..255.        *)
(* Paths follow posixpath ("/" is the only separator).                     *)
(***************************************************************************)
EXTENDS Integers, Sequences, FiniteSets, TLC

\* ------------------------------------------------------------------ bounds
MaxTitleLen == 3
MaxImageLen == 4
MaxPathLen == 4
MaxContentLen == 4

\* -------------------------------------------------------------- characters
AsciiUpper == <<"A","B","C","D","E","F","G","H","I","J","K","L","M",
                "N","O","P","Q","R","S","T","U","V","W","X","Y","Z">>
AsciiLower == <<"a","b","c","d","e","f","g","h","i","j","k","l","m",
                "n","o","p","q","r","s","t","u","v","w","x","y","z">>
AsciiDigit == <<"0","1","2","3","4","5","6","7","8","9">>

Range(s) == {s[i] : i \in 1..Len(s)}

\* Code points outside ASCII that str.isalnum() accepts: e-acute, E-acute,
\* superscript two, Arabic-Indic digit three.
UnicodeAlnum == {"U+00E9", "U+00C9", "U+00B2", "U+0663"}

\* str.isalnum() for one character
IsAlnum(c) == c \in Range(AsciiUpper) \cup Range(AsciiLower) \cup Range(AsciiDigit) \cup UnicodeAlnum

\* str.isspace() for one character
IsSpace(c) == c \in {" ", "\t", "\n", "\r", "\f", "U+00A0"}

\* str.lower() for one character
LowerChar(c) ==
  IF \E i \in 1..Len(AsciiUpper) : AsciiUpper[i] = c
    THEN AsciiLower[CHOOSE i \in 1..Len(AsciiUpper) : AsciiUpper[i] = c]
    ELSE IF c = "U+00C9" THEN "U+00E9" ELSE c

\* str.lower()
Lower(s) == [i \in 1..Len(s) |-> LowerChar(s[i])]

\* s[1:]
DropFirst(s) == IF s = <<>> THEN <<>> ELSE Tail(s)

\* str.rfind(c) for a one-character c, 1-based; 0 where Python returns -1
RFind(s, c) ==
  IF \E i \in 1..Len(s) : s[i] = c
    THEN CHOOSE i \in 1..Len(s) : s[i] = c /\ \A j \in (i+1)..Len(s) : s[j] # c
    ELSE 0

\* str.replace(old, new) for a one-character old
RECURSIVE Replace(_, _, _)
Replace(s, old, new) ==
  IF s = <<>> THEN <<>>
  ELSE (IF Head(s) = old THEN new ELSE <<Head(s)>>) \o Replace(Tail(s), old, new)

\* str.rstrip()
RECURSIVE RStrip(_)
RStrip(s) ==
  IF s # <<>> /\ IsSpace(s[Len(s)]) THEN RStrip(SubSeq(s, 1, Len(s) - 1)) ELSE s

\* KeepSafe letting dots and slashes through
KeepSafe_AllowsSeparators(s) ==
  SelectSeq(s, LAMBDA c : IsAlnum(c) \/ c \in {" ", "-", "_", ".", "/"})

\* "".join(c for c in s if c.isalnum() or c in (' ', '-', '_'))
KeepSafe(s) == SelectSeq(s, LAMBDA c : IsAlnum(c) \/ c \in {" ", "-", "_"})

\* ------------------------------------------------------------------ os.path
\* genericpath._splitext(p, "/", None, "."): the extension, dot included
SplitExt(p) ==
  LET sepIndex == RFind(p, "/")
      dotIndex == RFind(p, ".")
  IN  IF dotIndex > sepIndex
         /\ \E k \in (sepIndex + 1)..(dotIndex - 1) : p[k] # "."
        THEN SubSeq(p, dotIndex, Len(p))
        ELSE <<>>

\* posixpath.join(a, b)
Join(a, b) ==
  IF b # <<>> /\ Head(b) = "/" THEN b
  ELSE IF a = <<>> \/ a[Len(a)] = "/" THEN a \o b
  ELSE a \o <<"/">> \o b

\* ------------------------------------------------------------------- base64
B64Alphabet ==
  AsciiUpper \o AsciiLower \o AsciiDigit \o <<"+", "/">>

B64Char(n) == B64Alphabet[n + 1]

\* B64Encode shifting a lone last byte by 8 bits instead of 16
RECURSIVE B64Encode_WrongTail(_)
B64Encode_WrongTail(bs) ==
  IF Len(bs) = 0 THEN <<>>
  ELSE IF Len(bs) = 1 THEN
    LET n == bs[1] * 256
    IN  <<B64Char(n \div 262144), B64Char((n \div 4096) % 64), "=", "=">>
  ELSE IF Len(bs) = 2 THEN
    LET n == bs[1] * 65536 + bs[2] * 256
    IN  <<B64Char(n \div 262144), B64Char((n \div 4096) % 64),
          B64Char((n \div 64) % 64), "=">>
  ELSE
    LET n == bs[1] * 65536 + bs[2] * 256 + bs[3]
    IN  <<B64Char(n \div 262144), B64Char((n \div 4096) % 64),
          B64Char((n \div 64) % 64), B64Char(n % 64)>>
        \o B64Encode_WrongTail(SubSeq(bs, 4, Len(bs)))

\* base64.b64encode(bs).decode("utf-8")
RECURSIVE B64Encode(_)
B64Encode(bs) ==
  IF Len(bs) = 0 THEN <<>>
  ELSE IF Len(bs) = 1 THEN
    LET n == bs[1] * 65536
    IN  <<B64Char(n \div 262144), B64Char((n \div 4096) % 64), "=", "=">>
  ELSE IF Len(bs) = 2 THEN
    LET n == bs[1] * 65536 + bs[2] * 256
    IN  <<B64Char(n \div 262144), B64Char((n \div 4096) % 64),
          B64Char((n \div 64) % 64), "=">>
  ELSE
    LET n == bs[1] * 65536 + bs[2] * 256 + bs[3]
    IN  <<B64Char(n \div 262144), B64Char((n \div 4096) % 64),
          B64Char((n \div 64) % 64), B64Char(n % 64)>>
        \o B64Encode(SubSeq(bs, 4, Len(bs)))

\* ----------------------------------------------------------------- template
\* The literal pieces of the f-string of lines 50-96.
T_HEAD == "<!DOCTYPE html>\n<html lang=\"en\">\n<head>\n<meta charset=\"UTF-8\">\n<meta name=\"viewport\" content=\"width=device-width, initial-scale=1.0\">\n<title>"
T_STYLE == "</title>\n<script src=\"https://cdn.tailwindcss.com\"></script>\n<link href=\"https://fonts.googleapis.com/css2?family=Inter:wght@400;600;800&display=swap\" rel=\"stylesheet\">\n<style>\nbody {\n  margin: 0;\n  background: #1e1e2f;\n  color: white;\n  font-family: 'Inter', sans-serif;\n}\n.game-container {\n  max-width: 800px;\n  margin: 20px auto;\n  background: #2a2a40;\n  border-radius: 12px;\n  padding: 20px;\n  box-shadow: 0 4px 12px rgba(0,0,0,0.4);\n  text-align: center;\n}\n.game-cover {\n  width: 200px;\n  border-radius: 12px;\n}\niframe {\n  width: 100%;\n  height: 500px;\n  border: none;\n  margin-top: 20px;\n}\n</style>\n</head>\n<body>\n<div class=\"game-container\">\n  <h1 class=\"text-2xl font-bold mb-4\">"
T_IMG == "</h1>\n  <img src="
T_COVER == " class=\"game-cover\" alt=\"Cover image\">\n  <div>\n    <iframe srcdoc="
T_TAIL == "></iframe>\n  </div>\n</div>\n</body>\n</html>\n"

\* EscapeSrcdoc without the replacement of the double quote
EscapeSrcdoc_NoQuote(content) == Replace(content, "\n", <<" ">>)

\* the expression of line 91
EscapeSrcdoc(content) == Replace(Replace(content, "\"", <<"&","q","u","o","t",";">>), "\n", <<" ">>)

\* ImageExt without .lower()
ImageExt_NoLower(path) == DropFirst(SplitExt(path))

\* the expression of line 46
ImageExt(path) == DropFirst(Lower(SplitExt(path)))

\* the f-string of line 47
ImgSrc(e, encoded) == <<"data:image/">> \o e \o <<";base64,">> \o encoded

\* the f-string of lines 50-96
FinalHtml(title, src, content) ==
  <<T_HEAD>> \o title \o <<T_STYLE>> \o title
  \o <<T_IMG, "\"">> \o src \o <<"\"">>
  \o <<T_COVER, "\"">> \o EscapeSrcdoc(content) \o <<"\"">>
  \o <<T_TAIL>>

\* SafeTitle without .rstrip()
SafeTitle_NoRStrip(title) == KeepSafe(title)

\* the expression of line 99
SafeTitle(title) == RStrip(KeepSafe(title))

\* the expression of line 100
OutputPath(folder, title) == Join(folder, SafeTitle(title) \o <<".","h","t","m","l">>)

\* --------------------------------------------------------------- environment
SeqsUpTo(S, n) == UNION {[1..k -> S] : k \in 0..n}

HtmlA == <<"/","i","/","a",".","h","t","m","l">>
HtmlB == <<"/","i","/","b",".","h","t","m","l">>
HtmlMissing == <<"/","i","/","m",".","h","t","m","l">>
ImageC == <<"/","i","/","c",".","P","N","G">>
ImageMissing == <<"/","i","/","m",".","p","n","g">>
FolderO == <<"/","o">>
FolderOSlash == <<"/","o","/">>
FolderMissing == <<"/","x">>
TitleG == <<"g">>
TitleSlash == <<"a","/"," ">>

TextFile(data) == [kind |-> "text", data |-> data]
BinFile(data) == [kind |-> "bin", data |-> data]
Dir == [kind |-> "dir", data |-> <<>>]

\* The files on disk when the window opens: two game HTML files and one cover
\* image in /i, and the output folder /o.  HtmlMissing, ImageMissing and FolderMissing
\* name nothing.
Disk0 ==
  (HtmlA :> TextFile(<<"<","\"","\n",">">>)) @@ (HtmlB :> TextFile(<<"b">>))
  @@ (ImageC :> BinFile(<<137, 80>>))
  @@ (<<"/">> :> Dir) @@ (<<"/","i">> :> Dir) @@ (FolderO :> Dir)

\* What the dialogs can return and the entries can hold in Spec
HtmlChoices == {HtmlA, HtmlB, HtmlMissing}
ImageChoices == {ImageC, ImageMissing}
FolderChoices == {FolderO, FolderMissing}
TitleChoices == {TitleG, TitleSlash}

\* Input alphabets of SpecGen
TitleChars == {"a", "Z", "7", " ", "-", "_", ".", "/", "\\", "U+00E9", "U+00B2"}
PathChars == {"a", "B", ".", "/"}
ContentChars == {"a", "\"", "\n", "&"}
ByteSample == {0, 77, 128, 255}

\* --------------------------------------------------------------------- state
VARIABLES
  game_html_path, cover_image_path, game_title, output_folder,
  pc,
  game_content, image_data, encoded_image, ext, img_src,
  final_html, safe_title, output_path,
  fs,
  events,
  lastCall

fields == <<game_html_path, cover_image_path, game_title, output_folder>>
locals == <<game_content, image_data, encoded_image, ext, img_src,
            final_html, safe_title, output_path>>
vars == <<fields, pc, locals, fs, events, lastCall>>

\* one entry of events, the dialogs and file operations of the latest run
Ev(op, path) == [op |-> op, path |-> path]

\* the latest callback Tk dispatched, with what its dialog returned
Call(name, arg) == [name |-> name, arg |-> arg]

\* the locals of generate_html before they are assigned and after it returns
NoLocals ==
  /\ game_content' = <<>>
  /\ image_data' = <<>>
  /\ encoded_image' = <<>>
  /\ ext' = <<>>
  /\ img_src' = <<>>
  /\ final_html' = <<>>
  /\ safe_title' = <<>>
  /\ output_path' = <<>>

\* the window with the given field values and disk, no callback running
Window(html, image, title, folder, disk) ==
  /\ game_html_path = html
  /\ cover_image_path = image
  /\ game_title = title
  /\ output_folder = folder
  /\ pc = "idle"
  /\ game_content = <<>>
  /\ image_data = <<>>
  /\ encoded_image = <<>>
  /\ ext = <<>>
  /\ img_src = <<>>
  /\ final_html = <<>>
  /\ safe_title = <<>>
  /\ output_path = <<>>
  /\ fs = disk
  /\ events = <<>>
  /\ lastCall = Call("init", <<>>)

\* lines 12-16: the four StringVars start empty
Init == Window(<<>>, <<>>, <<>>, <<>>, Disk0)

\* Disk0 with one more file
WithFile(path, file) ==
  [p \in DOMAIN Disk0 \cup {path} |-> IF p = path THEN file ELSE Disk0[p]]

\* The inputs of one generation, drawn from the bounded sets: every title,
\* every game HTML content, every cover image content, every cover image
\* path (a path ending in "/" names no file), and the choices of Spec.
InitGen ==
  \/ \E title \in SeqsUpTo(TitleChars, MaxTitleLen), folder \in {FolderO, FolderOSlash} :
       Window(HtmlA, ImageC, title, folder, Disk0)
  \/ \E content \in SeqsUpTo(ContentChars, MaxContentLen) :
       Window(HtmlA, ImageC, TitleG, FolderO, WithFile(HtmlA, TextFile(content)))
  \/ \E bytes \in SeqsUpTo(ByteSample, MaxImageLen) :
       Window(HtmlA, ImageC, TitleG, FolderO, WithFile(ImageC, BinFile(bytes)))
  \/ \E path \in SeqsUpTo(PathChars, MaxPathLen) :
       Window(HtmlA, path, TitleG, FolderO,
              IF path = <<>> \/ path[Len(path)] = "/"
                THEN Disk0 ELSE WithFile(path, BinFile(<<137, 80>>)))
  \/ \E html \in HtmlChoices \cup {<<>>}, image \in ImageChoices \cup {<<>>},
        title \in TitleChoices \cup {<<>>}, folder \in FolderChoices \cup {<<>>} :
       Window(html, image, title, folder, Disk0)

\* ------------------------------------------------------------------- pickers
select_game_html(path) ==
  /\ pc = "idle"
  /\ game_html_path' = IF path # <<>> THEN path ELSE game_html_path
  /\ lastCall' = Call("select_game_html", path)
  /\ UNCHANGED <<cover_image_path, game_title, output_folder, pc, locals, fs, events>>

select_cover_image(path) ==
  /\ pc = "idle"
  /\ cover_image_path' = IF path # <<>> THEN path ELSE cover_image_path
  /\ lastCall' = Call("select_cover_image", path)
  /\ UNCHANGED <<game_html_path, game_title, output_folder, pc, locals, fs, events>>

\* select_output_folder without the test of line 30
select_output_folder_Unguarded(folder) ==
  /\ pc = "idle"
  /\ output_folder' = folder
  /\ lastCall' = Call("select_output_folder", folder)
  /\ UNCHANGED <<game_html_path, cover_image_path, game_title, pc, locals, fs, events>>

select_output_folder(folder) ==
  /\ pc = "idle"
  /\ output_folder' = IF folder # <<>> THEN folder ELSE output_folder
  /\ lastCall' = Call("select_output_folder", folder)
  /\ UNCHANGED <<game_html_path, cover_image_path, game_title, pc, locals, fs, events>>

\* The four Entry widgets are bound to the StringVars: typing sets the
\* variable to whatever the entry holds, the empty string included.
EntryGameTitle(text) ==
  /\ pc = "idle"
  /\ game_title' = text
  /\ lastCall' = Call("entry", <<>>)
  /\ UNCHANGED <<game_html_path, cover_image_path, output_folder, pc, locals, fs, events>>

EntryGameHtmlPath(text) ==
  /\ pc = "idle"
  /\ game_html_path' = text
  /\ lastCall' = Call("entry", <<>>)
  /\ UNCHANGED <<cover_image_path, game_title, output_folder, pc, locals, fs, events>>

EntryCoverImagePath(text) ==
  /\ pc = "idle"
  /\ cover_image_path' = text
  /\ lastCall' = Call("entry", <<>>)
  /\ UNCHANGED <<game_html_path, game_title, output_folder, pc, locals, fs, events>>

EntryOutputFolder(text) ==
  /\ pc = "idle"
  /\ output_folder' = text
  /\ lastCall' = Call("entry", <<>>)
  /\ UNCHANGED <<game_html_path, cover_image_path, game_title, pc, locals, fs, events>>

\* ------------------------------------------------------------- generate_html
\* AllFieldsSet with the output folder forgotten
AllFieldsSet_NoFolder ==
  /\ game_html_path # <<>>
  /\ cover_image_path # <<>>
  /\ game_title # <<>>

\* the negation of the condition of line 34
AllFieldsSet ==
  /\ game_html_path # <<>>
  /\ cover_image_path # <<>>
  /\ game_title # <<>>
  /\ output_folder # <<>>

\* open(path, "r", encoding="utf-8") and f.read() succeed
CanReadText(path) == path \in DOMAIN fs /\ fs[path].kind = "text"

\* open(path, "rb") and f.read() succeed
CanReadBytes(path) == path \in DOMAIN fs /\ fs[path].kind = "bin"

\* posixpath.dirname
Dirname(p) ==
  LET head == SubSeq(p, 1, RFind(p, "/"))
  IN  IF head # <<>> /\ \E i \in 1..Len(head) : head[i] # "/"
        THEN SubSeq(head, 1, CHOOSE k \in 1..Len(head) :
                               head[k] # "/" /\ \A j \in (k+1)..Len(head) : head[j] = "/")
        ELSE head

\* open(path, "w", encoding="utf-8") succeeds: the directory exists (the
\* empty dirname is the working directory) and path names no directory
CanWrite(path) ==
  /\ \/ Dirname(path) = <<>>
     \/ Dirname(path) \in DOMAIN fs /\ fs[Dirname(path)].kind = "dir"
  /\ path \in DOMAIN fs => fs[path].kind # "dir"

\* an exception leaves the callback: Tk reports it and the main loop goes on
Raise(op, path) ==
  /\ events' = events \o <<Ev(op, path), Ev("raise", <<>>)>>
  /\ pc' = "idle"
  /\ NoLocals

\* generate_html refusing to run again after a run that raised
generate_html_Sticky ==
  /\ pc = "idle"
  /\ lastCall' = Call("generate_html", <<>>)
  /\ IF AllFieldsSet /\ (events = <<>> \/ events[Len(events)].op # "raise")
       THEN /\ events' = <<>>
            /\ pc' = "read_html"
       ELSE /\ events' = <<Ev("showerror", <<>>)>>
            /\ pc' = "idle"
  /\ UNCHANGED <<fields, locals, fs>>

\* lines 33-36: the callback starts, with the presence check
generate_html ==
  /\ pc = "idle"
  /\ lastCall' = Call("generate_html", <<>>)
  /\ IF AllFieldsSet
       THEN /\ events' = <<>>
            /\ pc' = "read_html"
       ELSE /\ events' = <<Ev("showerror", <<>>)>>
            /\ pc' = "idle"
  /\ UNCHANGED <<fields, locals, fs>>

\* read_game_html going on with an empty game after a failed read
read_game_html_Swallow ==
  /\ pc = "read_html"
  /\ game_content' = IF CanReadText(game_html_path) THEN fs[game_html_path].data ELSE <<>>
  /\ events' = events \o <<Ev("read_text", game_html_path)>>
  /\ pc' = "read_image"
  /\ UNCHANGED <<image_data, encoded_image, ext, img_src, final_html, safe_title, output_path>>
  /\ UNCHANGED <<fields, fs, lastCall>>

\* lines 38-40
read_game_html ==
  /\ pc = "read_html"
  /\ IF CanReadText(game_html_path)
       THEN /\ game_content' = fs[game_html_path].data
            /\ events' = events \o <<Ev("read_text", game_html_path)>>
            /\ pc' = "read_image"
            /\ UNCHANGED <<image_data, encoded_image, ext, img_src,
                           final_html, safe_title, output_path>>
       ELSE Raise("open_failed", game_html_path)
  /\ UNCHANGED <<fields, fs, lastCall>>

\* lines 42-47
encode_cover_image ==
  /\ pc = "read_image"
  /\ IF CanReadBytes(cover_image_path)
       THEN /\ image_data' = fs[cover_image_path].data
            /\ encoded_image' = B64Encode(image_data')
            /\ ext' = ImageExt(cover_image_path)
            /\ img_src' = ImgSrc(ext', encoded_image')
            /\ events' = events \o <<Ev("read_bytes", cover_image_path)>>
            /\ pc' = "build"
            /\ UNCHANGED <<game_content, final_html, safe_title, output_path>>
       ELSE Raise("open_failed", cover_image_path)
  /\ UNCHANGED <<fields, fs, lastCall>>

\* lines 49-96
build_final_html ==
  /\ pc = "build"
  /\ final_html' = FinalHtml(game_title, img_src, game_content)
  /\ pc' = "save"
  /\ UNCHANGED <<fields, game_content, image_data, encoded_image, ext, img_src,
                 safe_title, output_path, fs, events, lastCall>>

\* save_file going on to the success dialog after a failed write
save_file_Swallow ==
  /\ pc = "save"
  /\ safe_title' = SafeTitle(game_title)
  /\ output_path' = OutputPath(output_folder, game_title)
  /\ IF CanWrite(output_path')
       THEN /\ fs' = [p \in DOMAIN fs \cup {output_path'} |->
                        IF p = output_path' THEN TextFile(final_html) ELSE fs[p]]
            /\ events' = events \o <<Ev("write", output_path')>>
       ELSE UNCHANGED <<fs, events>>
  /\ pc' = "showinfo"
  /\ UNCHANGED <<game_content, image_data, encoded_image, ext, img_src, final_html>>
  /\ UNCHANGED <<fields, lastCall>>

\* lines 98-102
save_file ==
  /\ pc = "save"
  /\ IF CanWrite(OutputPath(output_folder, game_title))
       THEN /\ safe_title' = SafeTitle(game_title)
            /\ output_path' = OutputPath(output_folder, game_title)
            /\ fs' = [p \in DOMAIN fs \cup {output_path'} |->
                        IF p = output_path' THEN TextFile(final_html) ELSE fs[p]]
            /\ events' = events \o <<Ev("write", output_path')>>
            /\ pc' = "showinfo"
            /\ UNCHANGED <<game_content, image_data, encoded_image, ext, img_src,
                           final_html>>
       ELSE /\ Raise("open_failed", OutputPath(output_folder, game_title))
            /\ UNCHANGED fs
  /\ UNCHANGED <<fields, lastCall>>

\* line 104, and the return
show_success ==
  /\ pc = "showinfo"
  /\ events' = events \o <<Ev("showinfo", output_path)>>
  /\ pc' = "idle"
  /\ NoLocals
  /\ UNCHANGED <<fields, fs, lastCall>>

Generate ==
  \/ generate_html
  \/ read_game_html
  \/ encode_cover_image
  \/ build_final_html
  \/ save_file
  \/ show_success

Next ==
  \/ \E path \in HtmlChoices \cup {<<>>} : select_game_html(path)
  \/ \E path \in ImageChoices \cup {<<>>} : select_cover_image(path)
  \/ \E folder \in FolderChoices \cup {<<>>} : select_output_folder(folder)
  \/ \E text \in TitleChoices \cup {<<>>} : EntryGameTitle(text)
  \/ \E text \in HtmlChoices \cup {<<>>} : EntryGameHtmlPath(text)
  \/ \E text \in ImageChoices \cup {<<>>} : EntryCoverImagePath(text)
  \/ \E text \in FolderChoices \cup {<<>>} : EntryOutputFolder(text)
  \/ Generate

Spec == Init /\ [][Next]_vars

\* one or more generations from drawn inputs
SpecGen == InitGen /\ [][Generate]_vars

\* ------------------------------------------------------------------- claims
\* a step that starts generate_html
Triggered == pc = "idle" /\ lastCall' = Call("generate_html", <<>>)

\* the latest callback was generate_html and it has returned or raised, so
\* the fields are those the run saw
RunOver == pc = "idle" /\ lastCall.name = "generate_html"

AnyFieldEmpty ==
  \/ game_html_path = <<>>
  \/ cover_image_path = <<>>
  \/ game_title = <<>>
  \/ output_folder = <<>>

Ops(evs) == {evs[i].op : i \in 1..Len(evs)}

\* C1: a generation triggered with at least one of the four fields empty is
\* refused: the run consists of the error dialog alone (no file is read, no
\* file is written, no success dialog), the disk is unchanged and the
\* callback has returned.
C1_EmptyFieldRefused ==
  [][Triggered /\ AnyFieldEmpty =>
       /\ events' = <<Ev("showerror", <<>>)>>
       /\ fs' = fs
       /\ pc' = "idle"]_vars

\* C1 witness: a refusal with only the output folder empty, after an earlier
\* run has written a file.
C1_Witness ==
  /\ RunOver
  /\ events = <<Ev("showerror", <<>>)>>
  /\ output_folder = <<>>
  /\ game_html_path # <<>> /\ cover_image_path # <<>> /\ game_title # <<>>
  /\ fs # Disk0

\* a step of the picker `name`, which set `field`
PickerFrame(name, field, others) ==
  (pc = "idle" /\ lastCall'.name = name) =>
     /\ others' = others
     /\ lastCall'.arg = <<>> => field' = field
     /\ lastCall'.arg # <<>> => field' = lastCall'.arg
     /\ field # <<>> => field' # <<>>

\* C10: a picker changes at most its own field: a cancelled dialog (empty
\* path) leaves the field as it was, a chosen path becomes the field's value,
\* a non-empty field never becomes empty, and the other three fields are
\* unchanged.
C10_PickerFrame ==
  [][/\ PickerFrame("select_game_html", game_html_path,
                    <<cover_image_path, game_title, output_folder>>)
     /\ PickerFrame("select_cover_image", cover_image_path,
                    <<game_html_path, game_title, output_folder>>)
     /\ PickerFrame("select_output_folder", output_folder,
                    <<game_html_path, cover_image_path, game_title>>)]_vars

\* C10 witness: the folder dialog was cancelled while the folder was set.
C10_Witness ==
  /\ lastCall = Call("select_output_folder", <<>>)
  /\ output_folder = FolderO
  /\ game_html_path = HtmlB

\* the operations of a run, in order
OpSeq(evs) == [i \in 1..Len(evs) |-> evs[i].op]

\* C5: the steps of a run come in the order validate, read the HTML file,
\* read the image, build, write, confirm: nothing happens in a run with an
\* empty field but the error dialog, the page is built after both reads and
\* before the write, a write is preceded by both reads, and a success dialog
\* is preceded by the write.
C5_StepOrder ==
  /\ pc # "idle" => ~AnyFieldEmpty
  /\ "showerror" \in Ops(events) => events = <<Ev("showerror", <<>>)>>
  /\ \A i \in 1..Len(events) :
       /\ events[i].op = "showinfo" => \E j \in 1..(i-1) : events[j].op = "write"
       /\ events[i].op = "write" =>
            \E j, k \in 1..(i-1) :
               j < k /\ events[j].op = "read_text" /\ events[k].op = "read_bytes"
       /\ events[i].op = "read_bytes" => \E j \in 1..(i-1) : events[j].op = "read_text"
  /\ pc = "build" => OpSeq(events) = <<"read_text", "read_bytes">> /\ final_html = <<>>
  /\ pc = "save" => OpSeq(events) = <<"read_text", "read_bytes">> /\ final_html # <<>>
  /\ pc = "showinfo" => OpSeq(events) = <<"read_text", "read_bytes", "write">>

\* C5 witness: a run that went through every step.
C5_Witness ==
  /\ RunOver
  /\ OpSeq(events) = <<"read_text", "read_bytes", "write", "showinfo">>

HtmlUnreadable == ~(game_html_path \in DOMAIN fs /\ fs[game_html_path].kind = "text")
ImageUnreadable == ~(cover_image_path \in DOMAIN fs /\ fs[cover_image_path].kind = "bin")
FolderUnwritable == ~(output_folder \in DOMAIN fs /\ fs[output_folder].kind = "dir")

\* the run ends in an exception after one failed open: no retry, no success
\* dialog, the fields as they were, and the callback over
Propagates ==
  /\ pc' = "idle"
  /\ events'[Len(events')].op = "raise"
  /\ Cardinality({i \in 1..Len(events') : events'[i].op = "open_failed"}) = 1
  /\ "showinfo" \notin Ops(events')
  /\ fields' = fields

\* C6: with the four fields set, a failing read of the HTML file, a failing
\* read of the image or a failing write is not retried or recovered from: the
\* exception leaves the handler, no success dialog is shown, the fields keep
\* their values, the handler can be triggered again, and after a failing read
\* nothing has been written.
C6_FailurePropagates ==
  [][/\ (pc = "read_html" /\ HtmlUnreadable) =>
          Propagates /\ "write" \notin Ops(events') /\ fs' = fs
     /\ (pc = "read_image" /\ ImageUnreadable) =>
          Propagates /\ "write" \notin Ops(events') /\ fs' = fs
     /\ (pc = "save" /\ FolderUnwritable) => Propagates]_vars

\* C6 witness: the write failed in a run that followed a successful one.
C6_Witness ==
  /\ RunOver
  /\ OpSeq(events) = <<"read_text", "read_bytes", "open_failed", "raise">>
  /\ output_folder = FolderMissing
  /\ fs # Disk0

\* how the latest run ended
Outcome ==
  IF events = <<>> THEN "running"
  ELSE IF events[Len(events)].op = "showerror" THEN "refused"
  ELSE IF events[Len(events)].op = "raise" THEN "failed"
  ELSE IF events[Len(events)].op = "showinfo" THEN "succeeded"
  ELSE "running"

\* the paths the latest run wrote
Written == {events[i].path : i \in {j \in 1..Len(events) : events[j].op = "write"}}

\* C8: a run is a function of the four field values and of the files they
\* name, whatever happened before: it is refused exactly when a field is
\* empty, fails exactly when a named file cannot be read or the folder cannot
\* be written, and otherwise writes, to the path derived from folder and
\* title, the page derived from the title and the two files' contents.
C8_RunDetermined ==
  RunOver =>
    /\ Outcome = (IF AnyFieldEmpty THEN "refused"
                  ELSE IF HtmlUnreadable \/ ImageUnreadable \/ FolderUnwritable THEN "failed"
                  ELSE "succeeded")
    /\ Outcome = "succeeded" =>
         /\ Written = {OutputPath(output_folder, game_title)}
         /\ fs[OutputPath(output_folder, game_title)] =
              TextFile(FinalHtml(game_title,
                                 ImgSrc(ImageExt(cover_image_path),
                                        B64Encode(fs[cover_image_path].data)),
                                 fs[game_html_path].data))

\* C8 witness: a run succeeded although the run before it, with other
\* fields, had written a different page.
C8_Witness ==
  /\ RunOver
  /\ Outcome = "succeeded"
  /\ Cardinality(DOMAIN fs \ DOMAIN Disk0) = 2
  /\ game_html_path = HtmlB

\* -------------------------------------------------- claims about one generation
DotHtml == <<".","h","t","m","l">>

\* s without its trailing whitespace
Trimmed(s) ==
  LET last == IF \E i \in 1..Len(s) : ~IsSpace(s[i])
                THEN CHOOSE i \in 1..Len(s) :
                       ~IsSpace(s[i]) /\ \A j \in (i+1)..Len(s) : IsSpace(s[j])
                ELSE 0
  IN  SubSeq(s, 1, last)

AsciiNameChar(c) ==
  c \in Range(AsciiUpper) \cup Range(AsciiLower) \cup Range(AsciiDigit) \cup {" ", "_", "-"}

PythonNameChar(c) == IsAlnum(c) \/ c \in {" ", "_", "-"}

\* C2 as stated: the output file name is the title with the characters
\* outside [A-Za-z0-9 _-] removed, trailing whitespace stripped, plus ".html".
C2_AsciiFileName ==
  pc = "showinfo" =>
    /\ safe_title = Trimmed(SelectSeq(game_title, AsciiNameChar))
    /\ output_path = Join(output_folder, safe_title \o DotHtml)

\* C2 amended: the output file name is the title with every character removed
\* that is neither alphanumeric in the sense of str.isalnum (non-ASCII letters
\* and digits are alphanumeric) nor a space, hyphen or underscore, trailing
\* whitespace stripped, plus ".html".
C2_FileName ==
  pc = "showinfo" =>
    /\ safe_title = Trimmed(SelectSeq(game_title, PythonNameChar))
    /\ output_path = Join(output_folder, safe_title \o DotHtml)

\* C2 witness: a title with a non-ASCII letter, a separator and a trailing
\* space has been turned into a file name.
C2_Witness ==
  /\ pc = "showinfo"
  /\ game_title = <<"U+00E9", "/", " ">>
  /\ safe_title = <<"U+00E9">>

\* the first index of x in s
IndexOf(s, x) == CHOOSE i \in 1..Len(s) : s[i] = x /\ \A j \in 1..(i-1) : s[j] # x

\* the index of the double quote closing the attribute whose opening double
\* quote follows the template piece tok
AttrClose(html, tok) ==
  CHOOSE j \in (IndexOf(html, tok) + 2)..Len(html) :
    html[j] = "\"" /\ \A k \in (IndexOf(html, tok) + 2)..(j-1) : html[k] # "\""

\* the value of that attribute, as an HTML parser delimits it
AttrValue(html, tok) == SubSeq(html, IndexOf(html, tok) + 2, AttrClose(html, tok) - 1)

\* the page the run has written
Page == fs[output_path].data

\* what follows "base64," in a data URI
Payload(uri) == SubSeq(uri, IndexOf(uri, ";base64,") + 1, Len(uri))

\* what stands between "data:image/" and ";base64," in a data URI
Subtype(uri) == SubSeq(uri, IndexOf(uri, "data:image/") + 1, IndexOf(uri, ";base64,") - 1)

B64Value(c) == IF c = "=" THEN 0 ELSE (CHOOSE i \in 1..64 : B64Alphabet[i] = c) - 1

\* base64.b64decode
RECURSIVE B64Decode(_)
B64Decode(cs) ==
  IF cs = <<>> THEN <<>>
  ELSE LET n == B64Value(cs[1]) * 262144 + B64Value(cs[2]) * 4096
                + B64Value(cs[3]) * 64 + B64Value(cs[4])
       IN  IF cs[3] = "=" THEN <<n \div 65536>>
           ELSE IF cs[4] = "=" THEN <<n \div 65536, (n \div 256) % 256>>
           ELSE <<n \div 65536, (n \div 256) % 256, n % 256>>
                \o B64Decode(SubSeq(cs, 5, Len(cs)))

\* C3: base64-decoding what follows "base64," in the img src of the written
\* page gives back the bytes of the cover image file.
C3_RoundTrip ==
  pc = "showinfo" =>
    B64Decode(Payload(AttrValue(Page, T_IMG))) = fs[cover_image_path].data

\* C3 witness: a four-byte image (one full group and a lone last byte) has
\* been embedded.
C3_Witness ==
  /\ pc = "showinfo"
  /\ fs[cover_image_path].data = <<255, 0, 128, 77>>

\* the lowercase extension of a path, without its dot: what follows the last
\* dot of the last component, leading dots of the component not counting
ExtensionOf(path) ==
  LET base == SubSeq(path, RFind(path, "/") + 1, Len(path))
      lead == Cardinality({i \in 1..Len(base) : \A j \in 1..i : base[j] = "."})
      rest == SubSeq(base, lead + 1, Len(base))
  IN  IF "." \in Range(rest)
        THEN Lower(SubSeq(rest, RFind(rest, ".") + 1, Len(rest)))
        ELSE <<>>

\* C4: the MIME subtype of the data URI in the written page is the lowercase
\* extension of the selected cover image path, without its dot.
C4_Subtype ==
  pc = "showinfo" =>
    Subtype(AttrValue(Page, T_IMG)) = ExtensionOf(cover_image_path)

\* C4 witness: a path with a leading dot, a second dot and an upper-case
\* extension.
C4_Witness ==
  /\ pc = "showinfo"
  /\ cover_image_path = <<".", "a", ".", "B">>
  /\ ext = <<"b">>

\* p names a file directly inside folder
DirectlyInside(p, folder) ==
  LET prefix == IF folder[Len(folder)] = "/" THEN folder ELSE folder \o <<"/">>
      name == SubSeq(p, Len(prefix) + 1, Len(p))
  IN  /\ Len(p) > Len(prefix)
      /\ SubSeq(p, 1, Len(prefix)) = prefix
      /\ "/" \notin Range(name)
      /\ "\\" \notin Range(name)
      /\ name \notin {<<".">>, <<".", ".">>}

C7_OneFileInFolder ==
  (RunOver /\ Outcome = "succeeded") =>
    /\ Cardinality({i \in 1..Len(events) : events[i].op = "write"}) = 1
    /\ \A p \in Written : p \in DOMAIN fs /\ DirectlyInside(p, output_folder)

C7_NothingElseTouched ==
  fs' # fs =>
    \E p \in DOMAIN fs' :
      /\ events' = events \o <<Ev("write", p)>>
      /\ DOMAIN fs' = DOMAIN fs \cup {p}
      /\ \A q \in DOMAIN fs \ {p} : fs'[q] = fs[q]

\* C7: a run that passes validation and meets no failure writes exactly one
\* file, directly inside the output folder (its name holds no separator and
\* is no "." or ".."), and the disk changes only by that write.
C7_WritesOneFile == []C7_OneFileInFolder /\ [][C7_NothingElseTouched]_vars

\* C7 witness: the title "../" ended as /o/.html.
C7_Witness ==
  /\ RunOver
  /\ Outcome = "succeeded"
  /\ game_title = <<".", ".", "/">>
  /\ Written = {FolderOSlash \o DotHtml}

\* content with each double quote turned into &quot; and each newline into a
\* space, in one pass
RECURSIVE Escaped(_)
Escaped(content) ==
  IF content = <<>> THEN <<>>
  ELSE (CASE Head(content) = "\"" -> <<"&","q","u","o","t",";">>
          [] Head(content) = "\n" -> <<" ">>
          [] OTHER -> <<Head(content)>>) \o Escaped(Tail(content))

\* C9: the srcdoc attribute of the written page, as delimited by its double
\* quotes, is the game HTML with each double quote replaced by &quot; and
\* each newline by a space; it holds no double quote and no newline, and the
\* quote that closes it is the template's own.
C9_Srcdoc ==
  pc = "showinfo" =>
    /\ AttrValue(Page, T_COVER) = Escaped(fs[game_html_path].data)
    /\ "\"" \notin Range(AttrValue(Page, T_COVER))
    /\ "\n" \notin Range(AttrValue(Page, T_COVER))
    /\ SubSeq(Page, AttrClose(Page, T_COVER) + 1, Len(Page)) = <<T_TAIL>>

\* C9 witness: a game HTML with a double quote, a newline and an ampersand.
C9_Witness ==
  /\ pc = "showinfo"
  /\ fs[game_html_path].data = <<"\"", "\n", "&", "a">>

=============================================================================
